---- MODULE Spec2Model ----
(***************************************************************************)
(* Student manager: the express/sqlite REST API server and the React       *)
(* client (student-frontend/src/App.js).                                   *)
(*                                                                         *)
(* The database is the table student_details plus sqlite's AUTOINCREMENT   *)
(* counter.  Every route handler is an async function: it runs up to its   *)
(* next `await db.*`, the statement is executed atomically by sqlite some  *)
(* time later, and the handler resumes after it.  Handlers of different    *)
(* requests interleave at these awaits.  Every statement may also throw    *)
(* (SQLITE_BUSY, I/O error, constraint violation), which lands in the      *)
(* handler's catch block.                                                  *)
(***************************************************************************)
EXTENDS Bags, FiniteSets, Integers, Sequences, TLC

\* Bounds of the model.
MaxReq == 2      \* route handlers in flight at the same time
MaxId == 2       \* rows ever inserted (caps the AUTOINCREMENT counter)
MaxClock == 1    \* ticks of CURRENT_TIMESTAMP

VARIABLES
    table,       \* student_details: a set of rows
    seq,         \* sqlite_sequence.seq for student_details (AUTOINCREMENT)
    now,         \* CURRENT_TIMESTAMP
    reqs,        \* bag of route handlers in flight (and their responses)
    everIds,     \* history: every id a row ever had
    lastWrite,   \* history: per live id, the body of the INSERT/UPDATE applied last
    students,    \* client: useState([])
    form,        \* client: useState({name:'',email:'',age:'',gender:''})
    editId,      \* client: useState(null)
    isLoading,   \* client: useState(false)
    error,       \* client: useState(null)
    mounted,     \* client: the useEffect of the first render has run
    clean        \* history: no request of the client has failed so far

dbVars == <<table, seq, now, everIds, lastWrite>>
uiVars == <<students, form, editId, isLoading, error, mounted, clean>>
vars == <<table, seq, now, reqs, everIds, lastWrite,
          students, form, editId, isLoading, error, mounted, clean>>

----------------------------------------------------------------------------
\* JavaScript values of a JSON body.  Strings are sequences of characters.
Undefined == [t |-> "undefined"]
Null == [t |-> "null"]
NaN == [t |-> "nan"]
Str(s) == [t |-> "str", s |-> s]
Num(n) == [t |-> "num", n |-> n]

\* ToBoolean, as used by `!name || !email || !age || !gender`.
Truthy(v) ==
    CASE v.t = "str" -> Len(v.s) > 0
      [] v.t = "num" -> v.n # 0
      [] OTHER -> FALSE

Digits == <<"0", "1", "2", "3", "4", "5", "6", "7", "8", "9">>
IsDigit(c) == \E d \in 1..10 : Digits[d] = c
DigitVal(c) == (CHOOSE d \in 1..10 : Digits[d] = c) - 1

RECURSIVE SkipSpace(_)
SkipSpace(s) ==
    IF s # <<>> /\ Head(s) = " " THEN SkipSpace(Tail(s)) ELSE s

\* The value of the longest prefix of digits of s, after acc.
RECURSIVE DigitPrefix(_, _)
DigitPrefix(s, acc) ==
    IF s # <<>> /\ IsDigit(Head(s))
    THEN DigitPrefix(Tail(s), 10 * acc + DigitVal(Head(s)))
    ELSE acc

\* parseInt(v, 10): the argument is converted to a string, leading white
\* space is skipped, an optional sign is read, then the longest prefix of
\* decimal digits; NaN when there is none.
ParseInt(v) ==
    CASE v.t = "num" -> Num(v.n)
      [] v.t = "str" ->
           LET s == SkipSpace(v.s)
               neg == s # <<>> /\ Head(s) = "-"
               u == IF s # <<>> /\ Head(s) \in {"-", "+"} THEN Tail(s) ELSE s
           IN  IF u = <<>> \/ ~IsDigit(Head(u)) THEN NaN
               ELSE Num(IF neg THEN 0 - DigitPrefix(u, 0) ELSE DigitPrefix(u, 0))
      [] OTHER -> NaN

Fields == {"name", "email", "age", "gender"}

\* if (!name || !email || !age || !gender) return 400   -- negated.
\* (NoGender: the test without its last operand.)
AllFieldsNoGender(body) ==
    Truthy(body.name) /\ Truthy(body.email) /\ Truthy(body.age)
AllFields(body) ==
    Truthy(body.name) /\ Truthy(body.email) /\ Truthy(body.age) /\ Truthy(body.gender)

----------------------------------------------------------------------------
\* Request bodies the clients send.
BodyA == [name |-> Str(<<"A", "n", "a">>), email |-> Str(<<"a", "@", "x">>),
          age |-> Str(<<"2", "1">>), gender |-> Str(<<"F">>)]
BodyB == [name |-> Str(<<"B", "o">>), email |-> Str(<<"b", "@", "x">>),
          age |-> Num(22), gender |-> Str(<<"M">>)]
\* all four fields present, but the age is not a number
BodyX == [BodyA EXCEPT !.age = Str(<<"x">>)]
\* one field absent, null or empty; or the number 0 as age
LackingBodies ==
    {[BodyA EXCEPT ![f] = v] : f \in Fields, v \in {Undefined, Null, Str(<<>>)}}
PostBodies == {BodyA, BodyB, BodyX, [BodyA EXCEPT !.age = Num(0)]} \cup LackingBodies
PutBodies == {BodyA, BodyB, BodyX} \cup {[BodyB EXCEPT ![f] = Str(<<>>)] : f \in Fields}
Ids == 1..MaxId

----------------------------------------------------------------------------
\* The table.
IdsOf(rows) == {r.id : r \in rows}
Max(S) == CHOOSE m \in S : \A x \in S : x <= m

\* id INTEGER PRIMARY KEY AUTOINCREMENT: one more than the largest rowid the
\* table ever held.  Without AUTOINCREMENT: one more than the largest now.
NextRowidNoAutoincrement(rows, sq) == Max(IdsOf(rows) \cup {0}) + 1
NextRowid(rows, sq) == Max(IdsOf(rows) \cup {sq}) + 1

\* INSERT INTO student_details (name, email, age, gender) VALUES (?, ?, ?, ?)
\* with [name, email, parseInt(age, 10), gender]; created_at takes its default.
InsertedRow(id, body, ts) ==
    [id |-> id, name |-> body.name.s, email |-> body.email.s,
     age |-> ParseInt(body.age).n, gender |-> body.gender.s, created_at |-> ts]

\* UPDATE student_details SET name = ?, email = ?, age = ?, gender = ? WHERE id = ?
\* with [name, email, parseInt(age, 10), gender, id].  (KeepGender: an UPDATE
\* that leaves one of the four columns.)
UpdatedRowKeepGender(r, body) ==
    [r EXCEPT !.name = body.name.s, !.email = body.email.s,
              !.age = ParseInt(body.age).n]
UpdatedRow(r, body) ==
    [r EXCEPT !.name = body.name.s, !.email = body.email.s,
              !.age = ParseInt(body.age).n, !.gender = body.gender.s]

\* SELECT * FROM student_details WHERE id = ?   (db.get: the row or undefined)
SelectById(rows, id) ==
    IF id \in IdsOf(rows) THEN CHOOSE r \in rows : r.id = id ELSE Undefined

\* SELECT * FROM student_details ORDER BY id DESC
RECURSIVE OrderByIdDesc(_)
OrderByIdDesc(rows) ==
    IF rows = {} THEN <<>>
    ELSE LET top == CHOOSE r \in rows : \A q \in rows : q.id <= r.id
         IN  <<top>> \o OrderByIdDesc(rows \ {top})

----------------------------------------------------------------------------
\* Route handlers in flight.
Handlers == BagToSet(reqs)
Add(h) == reqs (+) SetToBag({h})
Remove(h) == reqs (-) SetToBag({h})
Replace(h, g) == (reqs (-) SetToBag({h})) (+) SetToBag({g})
HasRoom == BagCardinality(reqs) < MaxReq

\* A handler at its entry: owner is "ext" (some other client) or "ui" (the
\* React client).  The last four fields are history: pre is the row the
\* handler's INSERT/UPDATE/DELETE found right before it ran (for INSERT: the
\* row holding the largest id assigned so far), applied whether that
\* statement changed the table, idsBefore the ids assigned before a POST
\* arrived, threw whether a statement of the handler threw.
NewHandler(owner, kind, pc, id, body) ==
    [owner |-> owner, kind |-> kind, pc |-> pc, id |-> id, body |-> body,
     lastID |-> 0, student |-> Undefined, status |-> 0, resp |-> Undefined,
     pre |-> Undefined, applied |-> FALSE, idsBefore |-> {}, threw |-> FALSE]

Reply(h, status, resp) == [h EXCEPT !.pc = "done", !.status = status, !.resp = resp]
\* the catch block of a handler
Caught(h, msg) ==
    [Reply(h, 500, [error |-> "Internal Server Error", message |-> msg])
        EXCEPT !.threw = TRUE]
BadRequest(h) == Reply(h, 400, [error |-> "Bad Request"])
NotFound(h) == Reply(h, 404, [error |-> "Not Found"])

\* app.post('/students'), up to its first await
PostEntry(owner, body) ==
    LET h == [NewHandler(owner, "POST", "insert", 0, body) EXCEPT !.idsBefore = everIds]
    IN  IF ~AllFields(body) THEN BadRequest(h) ELSE h

\* app.put('/students/:id'), up to its first await
PutEntry(owner, id, body) ==
    LET h == NewHandler(owner, "PUT", "update", id, body)
    IN  IF ~AllFields(body) THEN BadRequest(h) ELSE h

DeleteEntry(owner, id) == NewHandler(owner, "DELETE", "select", id, Undefined)
GetEntry(owner, id) == NewHandler(owner, "GET", "get", id, Undefined)
ListEntry(owner) == NewHandler(owner, "LIST", "all", 0, Undefined)

----------------------------------------------------------------------------
\* Requests of other clients arrive.
PostRequest ==
    /\ HasRoom
    /\ \E body \in PostBodies : reqs' = Add(PostEntry("ext", body))
    /\ UNCHANGED <<dbVars, uiVars>>

PutRequest ==
    /\ HasRoom
    /\ \E id \in Ids, body \in PutBodies : reqs' = Add(PutEntry("ext", id, body))
    /\ UNCHANGED <<dbVars, uiVars>>

DeleteRequest ==
    /\ HasRoom
    /\ \E id \in Ids : reqs' = Add(DeleteEntry("ext", id))
    /\ UNCHANGED <<dbVars, uiVars>>

GetRequest ==
    /\ HasRoom
    /\ \E id \in Ids : reqs' = Add(GetEntry("ext", id))
    /\ UNCHANGED <<dbVars, uiVars>>

ListRequest ==
    /\ HasRoom
    /\ reqs' = Add(ListEntry("ext"))
    /\ UNCHANGED <<dbVars, uiVars>>

\* The response reaches the other client.
Respond ==
    /\ \E h \in Handlers :
         /\ h.owner = "ext" /\ h.pc = "done"
         /\ reqs' = Remove(h)
    /\ UNCHANGED <<dbVars, uiVars>>

Tick ==
    /\ now < MaxClock
    /\ now' = now + 1
    /\ UNCHANGED <<table, seq, everIds, lastWrite, reqs, uiVars>>

----------------------------------------------------------------------------
\* app.post: await db.run('INSERT ...')
PostInsert ==
    \E h \in Handlers :
      /\ h.kind = "POST" /\ h.pc = "insert"
      /\ \/ /\ ParseInt(h.body.age) # NaN      \* NaN binds as NULL: age is NOT NULL
            /\ seq < MaxId
            /\ LET id == NextRowid(table, seq)
                   row == InsertedRow(id, h.body, now)
               IN  /\ table' = table \cup {row}
                   /\ seq' = Max({seq, id})
                   /\ everIds' = everIds \cup {id}
                   /\ lastWrite' = {w \in lastWrite : w.id # id}
                                     \cup {[id |-> id, body |-> h.body, at |-> now]}
                   /\ reqs' = Replace(h, [h EXCEPT !.pc = "select", !.lastID = id,
                                                   !.applied = TRUE,
                                                   !.pre = SelectById(table, seq)])
         \/ /\ reqs' = Replace(h, Caught(h, "Failed to add student"))
            /\ UNCHANGED <<table, seq, everIds, lastWrite>>
      /\ UNCHANGED <<now, uiVars>>

\* app.post: await db.get('SELECT ...', result.lastID); res.status(201).json(student)
PostSelect ==
    \E h \in Handlers :
      /\ h.kind = "POST" /\ h.pc = "select"
      /\ \/ reqs' = Replace(h, Reply(h, 201, SelectById(table, h.lastID)))
         \/ reqs' = Replace(h, Caught(h, "Failed to add student"))
      /\ UNCHANGED <<dbVars, uiVars>>

\* app.get('/students'): await db.all(...); res.json(students)
ListAll ==
    \E h \in Handlers :
      /\ h.kind = "LIST" /\ h.pc = "all"
      /\ \/ reqs' = Replace(h, Reply(h, 200, OrderByIdDesc(table)))
         \/ reqs' = Replace(h, Caught(h, "Failed to retrieve students"))
      /\ UNCHANGED <<dbVars, uiVars>>

\* app.get('/students/:id')
GetOne ==
    \E h \in Handlers :
      /\ h.kind = "GET" /\ h.pc = "get"
      /\ \/ LET student == SelectById(table, h.id)
            IN  reqs' = Replace(h, IF student = Undefined THEN NotFound(h)
                                   ELSE Reply(h, 200, student))
         \/ reqs' = Replace(h, Caught(h, "Failed to retrieve student"))
      /\ UNCHANGED <<dbVars, uiVars>>

\* app.put: await db.run('UPDATE ...'); 404 when result.changes === 0
PutUpdate ==
    \E h \in Handlers :
      /\ h.kind = "PUT" /\ h.pc = "update"
      /\ LET hit == {r \in table : r.id = h.id}
         IN  \/ /\ hit = {}
                /\ reqs' = Replace(h, NotFound(h))
                /\ UNCHANGED <<table, lastWrite>>
             \/ /\ hit # {}
                /\ ParseInt(h.body.age) # NaN  \* NaN binds as NULL: age is NOT NULL
                /\ table' = (table \ hit) \cup {UpdatedRow(r, h.body) : r \in hit}
                /\ lastWrite' = {[w EXCEPT !.body = IF w.id = h.id THEN h.body ELSE @]
                                   : w \in lastWrite}
                /\ reqs' = Replace(h, [h EXCEPT !.pc = "select", !.applied = TRUE,
                                                !.pre = SelectById(table, h.id)])
             \/ /\ reqs' = Replace(h, Caught(h, "Failed to update student"))
                /\ UNCHANGED <<table, lastWrite>>
      /\ UNCHANGED <<seq, now, everIds, uiVars>>

\* app.put: await db.get('SELECT ...', id); res.json(student)
PutSelect ==
    \E h \in Handlers :
      /\ h.kind = "PUT" /\ h.pc = "select"
      /\ \/ reqs' = Replace(h, Reply(h, 200, SelectById(table, h.id)))
         \/ reqs' = Replace(h, Caught(h, "Failed to update student"))
      /\ UNCHANGED <<dbVars, uiVars>>

\* app.delete: await db.get('SELECT ...', id); 404 when there is no row
DeleteSelect ==
    \E h \in Handlers :
      /\ h.kind = "DELETE" /\ h.pc = "select"
      /\ \/ LET student == SelectById(table, h.id)
            IN  reqs' = Replace(h, IF student = Undefined THEN NotFound(h)
                                   ELSE [h EXCEPT !.pc = "delete", !.student = student])
         \/ reqs' = Replace(h, Caught(h, "Failed to delete student"))
      /\ UNCHANGED <<dbVars, uiVars>>

\* app.delete: await db.run('DELETE ...', id); res.json(student)
DeleteRun ==
    \E h \in Handlers :
      /\ h.kind = "DELETE" /\ h.pc = "delete"
      /\ \/ /\ table' = {r \in table : r.id # h.id}
            /\ lastWrite' = {w \in lastWrite : w.id # h.id}
            /\ reqs' = Replace(h, [Reply(h, 200, h.student)
                                     EXCEPT !.pre = SelectById(table, h.id),
                                            !.applied = h.id \in IdsOf(table)])
         \/ /\ reqs' = Replace(h, Caught(h, "Failed to delete student"))
            /\ UNCHANGED <<table, lastWrite>>
      /\ UNCHANGED <<seq, now, everIds, uiVars>>

----------------------------------------------------------------------------
\* The React client (App.js).  Its requests are handlers owned by "ui"; a
\* response that has not been consumed by the awaiting function is a request
\* that has not resolved yet.
EmptyForm == [name |-> Str(<<>>), email |-> Str(<<>>), age |-> Str(<<>>),
              gender |-> Str(<<>>)]
\* What the user types: e.target.value is a string, also for the number input.
UserForm == [BodyB EXCEPT !.age = Str(<<"2", "2">>)]

\* the `required` attribute of the four inputs: the browser submits the form
\* only when every value is non-empty
FormComplete(f) == \A k \in Fields : f[k] # Str(<<>>)

UiHandlers == {h \in Handlers : h.owner = "ui"}
\* axios resolves on a 2xx status and rejects otherwise
Resolved(h) == h.status >= 200 /\ h.status < 300

\* useEffect(() => { fetchStudents(); }, []): fetchStudents up to its await
Mount ==
    /\ ~mounted /\ HasRoom
    /\ mounted' = TRUE
    /\ isLoading' = TRUE /\ error' = "null"
    /\ reqs' = Add(ListEntry("ui"))
    /\ UNCHANGED <<dbVars, students, form, editId, clean>>

\* fetchStudents after `await axios.get`
FetchDone ==
    \E h \in UiHandlers :
      /\ h.kind = "LIST" /\ h.pc = "done"
      /\ IF Resolved(h)
         THEN students' = h.resp /\ UNCHANGED <<error, clean>>
         ELSE /\ error' = "Failed to fetch students. Please try again."
              /\ clean' = FALSE
              /\ UNCHANGED students
      /\ isLoading' = FALSE
      /\ reqs' = Remove(h)
      /\ UNCHANGED <<dbVars, form, editId, mounted>>

\* the onChange handlers of the four inputs (never disabled); the user is
\* taken to complete the form before doing anything else
Change ==
    /\ mounted
    /\ form' = UserForm
    /\ UNCHANGED <<dbVars, reqs, students, editId, isLoading, error, mounted, clean>>

\* handleSubmit up to its await; the submit button is disabled={isLoading}
Submit ==
    /\ mounted /\ ~isLoading /\ FormComplete(form) /\ HasRoom
    /\ isLoading' = TRUE /\ error' = "null"
    /\ reqs' = Add(IF editId # 0 THEN PutEntry("ui", editId, form)
                   ELSE PostEntry("ui", form))
    /\ UNCHANGED <<dbVars, students, form, editId, mounted, clean>>

\* handleSubmit after its await: on success it clears the form, calls
\* fetchStudents() without awaiting it (which sets isLoading to true and
\* issues the GET) and then runs its own setIsLoading(false)
SubmitDone ==
    \E h \in UiHandlers :
      /\ h.kind \in {"POST", "PUT"} /\ h.pc = "done"
      /\ IF Resolved(h)
         THEN /\ form' = EmptyForm /\ editId' = 0
              /\ error' = "null"
              /\ reqs' = Replace(h, ListEntry("ui"))
              /\ UNCHANGED clean
         ELSE /\ error' = IF h.kind = "PUT"
                          THEN "Failed to update student. Please try again."
                          ELSE "Failed to add student. Please try again."
              /\ clean' = FALSE
              /\ reqs' = Remove(h)
              /\ UNCHANGED <<form, editId>>
      /\ isLoading' = FALSE
      /\ UNCHANGED <<dbVars, students, mounted>>

\* handleEdit(student); the Edit button is disabled={isLoading}
Edit ==
    /\ mounted /\ ~isLoading
    /\ \E i \in 1..Len(students) :
         /\ form' = [name |-> Str(students[i].name), email |-> Str(students[i].email),
                     age |-> Num(students[i].age), gender |-> Str(students[i].gender)]
         /\ editId' = students[i].id
    /\ UNCHANGED <<dbVars, reqs, students, isLoading, error, mounted, clean>>

\* handleDelete(student.id) with the confirmation accepted, up to its await;
\* the Delete button is disabled={isLoading}
Delete ==
    /\ mounted /\ ~isLoading /\ HasRoom
    /\ \E i \in 1..Len(students) : reqs' = Add(DeleteEntry("ui", students[i].id))
    /\ isLoading' = TRUE /\ error' = "null"
    /\ UNCHANGED <<dbVars, students, form, editId, mounted, clean>>

\* handleDelete after its await: fetchStudents() is not awaited either
DeleteDone ==
    \E h \in UiHandlers :
      /\ h.kind = "DELETE" /\ h.pc = "done"
      /\ IF Resolved(h)
         THEN /\ error' = "null"
              /\ reqs' = Replace(h, ListEntry("ui"))
              /\ UNCHANGED clean
         ELSE /\ error' = "Failed to delete student. Please try again."
              /\ clean' = FALSE
              /\ reqs' = Remove(h)
      /\ isLoading' = FALSE
      /\ UNCHANGED <<dbVars, students, form, editId, mounted>>

\* handleCancel; the button is rendered when editId is set, disabled={isLoading}
Cancel ==
    /\ mounted /\ ~isLoading /\ editId # 0
    /\ form' = EmptyForm /\ editId' = 0
    /\ UNCHANGED <<dbVars, reqs, students, isLoading, error, mounted, clean>>

----------------------------------------------------------------------------
Init ==
    /\ table = {} /\ seq = 0 /\ now = 0
    /\ reqs = EmptyBag
    /\ everIds = {} /\ lastWrite = {}
    /\ students = <<>> /\ form = EmptyForm /\ editId = 0
    /\ isLoading = FALSE /\ error = "null" /\ mounted = FALSE /\ clean = TRUE

\* The API under the requests of any number of other clients.
Next ==
    \/ PostRequest \/ PutRequest \/ DeleteRequest \/ GetRequest \/ ListRequest
    \/ PostInsert \/ PostSelect \/ PutUpdate \/ PutSelect
    \/ DeleteSelect \/ DeleteRun \/ ListAll \/ GetOne
    \/ Respond \/ Tick

Spec == Init /\ [][Next]_vars

\* One React client alone with the API.
ClientNext ==
    \/ Mount \/ FetchDone \/ Change \/ Submit \/ SubmitDone
    \/ Edit \/ Delete \/ DeleteDone \/ Cancel
    \/ PostInsert \/ PostSelect \/ PutUpdate \/ PutSelect
    \/ DeleteSelect \/ DeleteRun \/ ListAll
    \/ Tick

ClientSpec == Init /\ [][ClientNext]_vars

----------------------------------------------------------------------------
\* Properties.

DonePosts == {h \in Handlers : h.kind = "POST" /\ h.pc = "done"}
DonePuts == {h \in Handlers : h.kind = "PUT" /\ h.pc = "done"}
DoneDeletes == {h \in Handlers : h.kind = "DELETE" /\ h.pc = "done"}

\* the row echoes the body: name, email and gender as sent, age through parseInt
Echoes(row, body) ==
    /\ row.name = body.name.s
    /\ row.email = body.email.s
    /\ row.gender = body.gender.s
    /\ row.age = ParseInt(body.age).n

\* C1: every POST whose four fields are present is answered 201 with a record
\* whose id no record had before the request and whose fields echo the request
\* (age as an integer), whatever other requests run between its INSERT and
\* its SELECT.  (Stated for the requests none of whose statements threw.)
C1_PostReturnsCreated ==
    \A h \in DonePosts :
        (AllFields(h.body) /\ ~h.threw) =>
            /\ h.status = 201
            /\ h.resp # Undefined
            /\ h.resp.id \notin h.idsBefore
            /\ Echoes(h.resp, h.body)

\* C2: a DELETE answered 200 returns the record as it was stored immediately
\* before the row was removed, and the id is absent once the response is sent.
C2_DeleteReturnsStored ==
    \A h \in DoneDeletes :
        h.status = 200 =>
            /\ h.pre # Undefined => h.resp = h.pre
            /\ h.id \notin IdsOf(table)

\* C3: a PUT with four fields whose UPDATE found the row is answered 200 with
\* a record of the same id and created_at as before and the fields of this
\* request, whatever runs between its UPDATE and its SELECT.  (Stated for the
\* requests none of whose statements threw.)
C3_PutReturnsUpdated ==
    \A h \in DonePuts :
        (h.applied /\ ~h.threw) =>
            /\ h.status = 200
            /\ h.resp # Undefined
            /\ h.resp.id = h.id
            /\ h.resp.created_at = h.pre.created_at
            /\ Echoes(h.resp, h.body)

\* C4: no two rows share an id, and an INSERT never assigns an id that some
\* row had before, deleted rows included.
C4_IdsUniqueNeverReused ==
    /\ [](\A r, q \in table : r.id = q.id => r = q)
    /\ [][(IdsOf(table') \ IdsOf(table)) \cap everIds = {}]_vars

\* C4 witness: an INSERT has run after the row with the largest id assigned
\* so far had been deleted.
C4_InsertAfterDeletingHighest ==
    \E h \in Handlers :
        /\ h.kind = "POST" /\ h.applied /\ h.lastID > 1
        /\ h.pre = Undefined
        /\ h.lastID \in IdsOf(table)

\* C5: a POST, PUT or DELETE answered 400, 404 or 500 has left the table as
\* it was: its statement has not changed any row.
C5_ErrorMeansNotApplied ==
    \A h \in DonePosts \cup DonePuts \cup DoneDeletes :
        h.status \in {400, 404, 500} => ~h.applied

\* a field of the body is absent, null or the empty string
Lacks(body) == \E f \in Fields : body[f] \in {Undefined, Null, Str(<<>>)}

\* C6: a POST lacking one of the four fields is answered 400 at once and never
\* runs a statement, so the table is as before.
C6_LackingPostRejected ==
    \A h \in Handlers :
        (h.kind = "POST" /\ Lacks(h.body)) =>
            h.pc = "done" /\ h.status = 400 /\ ~h.applied /\ h.lastID = 0

\* C6 witness: such a POST has been answered while the table holds a row.
C6_LackingPostSeen ==
    /\ table # {}
    /\ \E h \in DonePosts : Lacks(h.body) /\ h.status = 400

\* the row of this id is, in all four fields, the body of the INSERT or UPDATE
\* applied to it last, and keeps the created_at of its INSERT
LastWriteWins(id) ==
    \A r \in table :
        r.id = id =>
            \E w \in lastWrite :
                w.id = id /\ Echoes(r, w.body) /\ r.created_at = w.at

\* two PUTs of the same id were in flight together and both have applied
\* their UPDATE and been answered
TwoPutsDone(id) ==
    \E h, g \in DonePuts :
        /\ h.id = id /\ g.id = id
        /\ h.applied /\ g.applied /\ h.status = 200 /\ g.status = 200
        /\ (h # g \/ CopiesIn(h, reqs) >= 2)

\* C7: after two concurrent PUTs of one id the stored row has the four fields
\* of the UPDATE applied last, never a mixture, and its id and created_at.
C7_LastUpdateWins ==
    \A id \in IdsOf(table) : TwoPutsDone(id) => LastWriteWins(id)

\* C7 witness: two PUTs with different bodies for one stored row are done.
C7_TwoDifferentPutsDone ==
    \E h, g \in DonePuts :
        /\ h.id = g.id /\ h.body # g.body /\ h.id \in IdsOf(table)
        /\ h.applied /\ g.applied /\ h.status = 200 /\ g.status = 200

\* C8: while a request of the client has not resolved, isLoading is true.
C8_BusyWhileInFlight ==
    UiHandlers # {} => isLoading

\* C9: the client never has two of POST, PUT, DELETE in flight together.
C9_OneMutationInFlight ==
    LET muts == {h \in UiHandlers : h.kind \in {"POST", "PUT", "DELETE"}}
    IN  /\ Cardinality(muts) <= 1
        /\ \A h \in muts : CopiesIn(h, reqs) = 1

\* C10: with no failed request, once the client has nothing in flight its
\* list is the table in descending id order.
C10_ListIsCurrent ==
    (mounted /\ clean /\ UiHandlers = {}) => students = OrderByIdDesc(table)

====
